---- MODULE Spec2Model ----
(***************************************************************************)
(* Client-side project orchestration of the bot authoring tool             *)
(* (recoilModel/dispatchers/utils/project.ts): the skill-tree opener, the  *)
(* settings merger, the project loader and the project-failure handler.    *)
(***************************************************************************)
EXTENDS Integers, Sequences, FiniteSets, TLC

\* ------------------------------------------------------------------ bounds
\* Largest number of entries in the root bot project file's skill mapping.
MaxSkills == 2

\* ------------------------------------------------------------- state
VARIABLES
  \* --- skill-tree opener
  hasBotProjectFile,          \* botFiles.botProjectSpaceFiles.length > 0
  skills,                     \* currentBotProjectFile.skills: key -> kind of entry
  pc,                         \* position of openRootBotAndSkills
  skillPromise,               \* key -> state of the skill's promise chain
  skillError,                 \* key -> the error its load rejected with
  placeholderOf,              \* key -> id returned by handleSkillLoadingFailure
  botProjectIdsState,
  botProjectSpaceLoadedState,
  currentProjectIdState,
  projectMetaDataState,       \* project id -> [isRootBot, isRemote]
  botDisplayNameState,        \* project id -> display name
  botNameIdentifierState,     \* project id -> name identifier
  botErrorState,              \* project id -> error payload
  uuidCount,                  \* number of uuid() calls so far
  loadedWrites,               \* number of set(botProjectSpaceLoadedState, true)
  \* --- settings merger
  settingStorage,             \* browser local storage: project id -> record
  remoteSettings,             \* the settings as the backend returned them
  settings,                   \* the settings object passed in, as it is now
  botName,
  mergeProjectId,             \* the projectId argument
  mergedSettings,             \* the returned settings
  remergedSettings,           \* the result of merging mergedSettings again
  mergePc,                    \* position of the merge call
  \* --- project loader
  loaderEntry,                \* the function that was called
  loaderResult,               \* what the call gave its caller
  \* --- project failure handler
  warnAboutDotNetState,
  warnAboutFunctionsState,
  applicationErrorState,      \* the error recorded by setError
  handledError,               \* the error of the last handleProjectFailure
  handledWrites,              \* the atoms that call wrote
  \* --- flushExistingTasks
  flushPc,                    \* position of flushExistingTasks
  flushProjectIds,            \* projectIds: botProjectIdsState of its snapshot
  stopBotPromise,             \* project id -> state of its stopBot call
  workersFlushed,             \* the lg, lu and qna workers were flushed
  stoppedBots,                \* projects whose stopBot has resolved
  resetProjects,              \* projects resetBotStates has run for
  \* --- background parsing of one project
  parsePc,                    \* position of initBotState / parseAllAssets
  workerFiles,                \* botFiles.lgFiles, luFiles, qnaFiles: kind -> ids
  storeFiles,                 \* lg, lu, qna selector families: kind -> id -> record
  storeAtCompletion,          \* storeFiles as parseAllAssets found them
  projectIndexingState,
  \* --- opening a project
  storageAtOpen               \* local storage before the project was opened

treeVars == << hasBotProjectFile, skills, pc, skillPromise, skillError,
               placeholderOf, botProjectIdsState, botProjectSpaceLoadedState,
               currentProjectIdState, projectMetaDataState, botDisplayNameState,
               botNameIdentifierState, botErrorState, uuidCount, loadedWrites >>

mergeVars == << settingStorage, remoteSettings, settings, botName, mergeProjectId,
                mergedSettings, remergedSettings, mergePc >>

loaderVars == << loaderEntry, loaderResult >>

failureVars == << warnAboutDotNetState, warnAboutFunctionsState, applicationErrorState,
                  handledError, handledWrites >>

flushVars == << flushPc, flushProjectIds, stopBotPromise, workersFlushed, stoppedBots,
                resetProjects >>

parseVars == << parsePc, workerFiles, storeFiles, storeAtCompletion, projectIndexingState >>

sessionVars == << flushVars, parseVars, storageAtOpen >>

vars == << treeVars, mergeVars, loaderVars, failureVars, sessionVars >>

\* ------------------------------------------------------------- identifiers
SkillKeys == 1..MaxSkills

\* projectData.id of the root bot.
RootId == << "root", 0 >>
\* The id the backend gives skill k (projectData.id or generateProjectId).
ProjectIdOf(k) == << "project", k >>
\* The n-th value returned by uuid().
Uuid(n) == << "uuid", n >>
\* The default of currentProjectIdState (the empty string), and "no id".
NoId == << "", 0 >>

\* A skill entry: local (not remote, has a workspace), remote (has a manifest)
\* or neither, in which case no skillPromise is created.
SkillKinds == { "local", "remote", "none" }

\* Errors a load can reject with: a plain Error, or an http error that carries
\* response.data.message. part tells the error object from its response.data.
PlainError == [ kind |-> "plain", part |-> "error" ]
HttpError == [ kind |-> "http", part |-> "error" ]
HandlerError == [ kind |-> "handler", part |-> "error" ]
LoadErrors == { PlainError, HttpError }
ResponseData(ex) == [ kind |-> ex.kind, part |-> "responseData" ]
NoError == [ kind |-> "none", part |-> "none" ]

\* -------------------------------------------------- recoil atom families
Put(f, id, v) == [ x \in DOMAIN f \cup { id } |-> IF x = id THEN v ELSE f[x] ]

\* setErrorOnBotProject: the value stored in botErrorState(projectId).
ErrorPayload(payload) ==
  IF payload.kind = "http" THEN ResponseData(payload) ELSE payload

\* addProjectToBotProjectSpace: the new id list and isBotProjectLoaded.
AddedIds(current, projectId) == Append(current, projectId)
IsBotProjectLoaded(botProjectIds, skillCt) == Len(botProjectIds) = skillCt

TotalProjectsCountOffByOne == Cardinality(DOMAIN skills) + 2
TotalProjectsCount == Cardinality(DOMAIN skills) + 1

AddProjectToBotProjectSpace(projectId, skillCt) ==
  LET botProjectIds == AddedIds(botProjectIdsState, projectId)
      isBotProjectLoaded == IsBotProjectLoaded(botProjectIds, skillCt)
  IN /\ botProjectIdsState' = botProjectIds
     /\ botProjectSpaceLoadedState' =
          IF isBotProjectLoaded THEN TRUE ELSE botProjectSpaceLoadedState
     /\ loadedWrites' = IF isBotProjectLoaded THEN loadedWrites + 1 ELSE loadedWrites

\* handleSkillLoadingFailure, then addProjectToBotProjectSpace (the .catch).
PlaceholderMetaDataAlwaysLocal(isRemote) == [ isRootBot |-> FALSE, isRemote |-> FALSE ]
PlaceholderMetaData(isRemote) == [ isRootBot |-> FALSE, isRemote |-> isRemote ]
PlaceholderName(skillNameIdentifier) == << "key", skillNameIdentifier >>

HandleSkillLoadingFailure(k, ex) ==
  LET projectId == Uuid(uuidCount + 1)
  IN /\ uuidCount' = uuidCount + 1
     /\ projectMetaDataState' =
          Put(projectMetaDataState, projectId, PlaceholderMetaData(skills[k] = "remote"))
     /\ botDisplayNameState' = Put(botDisplayNameState, projectId, PlaceholderName(k))
     /\ botNameIdentifierState' = Put(botNameIdentifierState, projectId, PlaceholderName(k))
     /\ botErrorState' = Put(botErrorState, projectId, ErrorPayload(ex))
     /\ placeholderOf' = [ placeholderOf EXCEPT ![k] = projectId ]
     /\ AddProjectToBotProjectSpace(projectId, TotalProjectsCount)

EmptyMap == [ x \in {} |-> NoId ]

TreeIdle ==
  /\ hasBotProjectFile = TRUE
  /\ skills = EmptyMap
  /\ pc = "idle"
  /\ skillPromise = EmptyMap
  /\ skillError = EmptyMap
  /\ placeholderOf = EmptyMap
  /\ botProjectIdsState = << >>
  /\ botProjectSpaceLoadedState = FALSE
  /\ currentProjectIdState = NoId
  /\ projectMetaDataState = EmptyMap
  /\ botDisplayNameState = EmptyMap
  /\ botNameIdentifierState = EmptyMap
  /\ botErrorState = EmptyMap
  /\ uuidCount = 0
  /\ loadedWrites = 0

\* ------------------------------------------------- loader and failure state
\* What a call gives its caller: a returned tuple, of which botFiles and
\* projectData are defined or not and error is an error or undefined
\* (NoError), or a rejection with the thrown error.
LoaderTuple(botFiles, projectData, error) ==
  [ outcome |-> "returned", botFiles |-> botFiles, projectData |-> projectData,
    error |-> error ]
LoaderRejection(error) ==
  [ outcome |-> "rejected", botFiles |-> FALSE, projectData |-> FALSE, error |-> error ]
NoLoaderResult ==
  [ outcome |-> "none", botFiles |-> FALSE, projectData |-> FALSE, error |-> NoError ]

IndexError == [ kind |-> "index", part |-> "error" ]
ValidateError == [ kind |-> "validate", part |-> "error" ]
\* How the work on the returned files ends: indexer.index or
\* BotIndexer.validate may throw.
FileOutcomes == { "ok", "indexThrows", "validateThrows" }
ThrownBy(files) == IF files = "indexThrows" THEN IndexError ELSE ValidateError

LoaderIdle ==
  /\ loaderEntry = "idle"
  /\ loaderResult = NoLoaderResult

\* An error's messages: error.response.data.message and error.message, each
\* absent or a text of one of these kinds.
MessageTexts == { "dotnet", "functions", "both", "other" }
Messages == MessageTexts \cup { "absent" }
ProjectErrors == [ responseMessage : Messages, message : Messages ]
NoFailure == [ responseMessage |-> "none", message |-> "none" ]

FailureIdle ==
  /\ warnAboutDotNetState = FALSE
  /\ warnAboutFunctionsState = FALSE
  /\ applicationErrorState = NoFailure
  /\ handledError = NoFailure
  /\ handledWrites = {}

\* ------------------------------------------------- flush, parsing, open state
FileKinds == { "lg", "lu", "qna" }
NoFiles == [ kind \in FileKinds |-> EmptyMap ]
NoWorkerFiles == [ kind \in FileKinds |-> {} ]

FlushIdle ==
  /\ flushPc = "idle"
  /\ flushProjectIds = << >>
  /\ stopBotPromise = EmptyMap
  /\ workersFlushed = FALSE
  /\ stoppedBots = {}
  /\ resetProjects = {}

ParseIdle ==
  /\ parsePc = "idle"
  /\ workerFiles = NoWorkerFiles
  /\ storeFiles = NoFiles
  /\ storeAtCompletion = NoFiles
  /\ projectIndexingState = FALSE

SessionIdle == FlushIdle /\ ParseIdle /\ storageAtOpen = << >>

\* ------------------------------------------------------------- settings
\* Property paths, as lodash get/set read them: one or two keys.
SensitiveProperties ==
  << << "MicrosoftAppPassword" >>, << "luis", "authoringKey" >>,
     << "luis", "endpointKey" >>, << "qna", "subscriptionKey" >>,
     << "qna", "endpointKey" >> >>
RootBotManagedProperties ==
  << << "luis", "authoringKey" >>, << "luis", "endpointKey" >>,
     << "qna", "subscriptionKey" >> >>
Includes(list, property) == \E i \in 1..Len(list) : list[i] = property

\* Values of settings fields. "" stands for the empty string and for a missing
\* key alike: lodash get gives a falsy value for both.
RemoteValues == { "", "remote" }
LocalValues == { "", "local" }
BotNames == { "", "bot" }

\* A settings object: MicrosoftAppPassword, the nested luis and qna objects
\* (defined = FALSE: the key is missing), and the shape of its skill list.
UndefinedLuis == [ defined |-> FALSE, authoringKey |-> "", endpointKey |-> "", name |-> "" ]
UndefinedQna == [ defined |-> FALSE, subscriptionKey |-> "", endpointKey |-> "" ]
LuisObjects ==
  { UndefinedLuis } \cup
  [ defined : { TRUE }, authoringKey : RemoteValues, endpointKey : RemoteValues,
    name : { "", "luisName" } ]
QnaObjects ==
  { UndefinedQna } \cup
  [ defined : { TRUE }, subscriptionKey : RemoteValues, endpointKey : RemoteValues ]
SkillShapes == { "none", "array", "dictionary" }
DialogSettings ==
  [ MicrosoftAppPassword : RemoteValues, luis : LuisObjects, qna : QnaObjects,
    skill : SkillShapes ]
EmptySettings ==
  [ MicrosoftAppPassword |-> "", luis |-> UndefinedLuis, qna |-> UndefinedQna,
    skill |-> "none" ]

\* lodash get and set on a settings object.
ObjectGet(object, property) ==
  IF Len(property) = 1
    THEN object[property[1]]
    ELSE IF object[property[1]].defined THEN object[property[1]][property[2]] ELSE ""
ObjectSet(object, property, value) ==
  IF Len(property) = 1
    THEN [ object EXCEPT ![property[1]] = value ]
    ELSE [ object EXCEPT ![property[1]] =
             [ @ EXCEPT ![property[2]] = value, !["defined"] = TRUE ] ]

\* A local-storage entry at a property path: a string (value), or for the
\* root-bot-managed paths a map with a 'root' entry and one entry per skill
\* project id (here: of the first skill; no other skill has an entry).
StorageEntry(value, root, skill) == [ value |-> value, root |-> root, skill |-> skill ]
NoEntry == StorageEntry("", "", "")
NoRecord ==
  [ exists |-> FALSE, MicrosoftAppPassword |-> NoEntry,
    luis |-> [ authoringKey |-> NoEntry, endpointKey |-> NoEntry ],
    qna |-> [ subscriptionKey |-> NoEntry, endpointKey |-> NoEntry ] ]
LocalGet(localSetting, property) ==
  IF Len(property) = 1
    THEN localSetting[property[1]]
    ELSE localSetting[property[1]][property[2]]
SkillEntry(entry, projectId) == IF projectId = ProjectIdOf(1) THEN entry.skill ELSE ""

\* A call's view of the heap: the object it returns and the object it was
\* passed, which a write through a shared nested object changes too.
Pair(merged, input) == [ merged |-> merged, input |-> input ]

\* objectSet on the shallow copy { ...settings }: the nested object of a
\* two-key path is the input's own object whenever the input has one.
SetOnCopy(pair, property, value) ==
  Pair(ObjectSet(pair.merged, property, value), pair.input)
SetOnShallowCopy(pair, property, value) ==
  Pair(ObjectSet(pair.merged, property, value),
       IF Len(property) = 2 /\ pair.input[property[1]].defined
         THEN ObjectSet(pair.input, property, value)
         ELSE pair.input)

\* mergeLocalStorage
LocalOverrideIgnored(value) == ""
LocalOverride(value) == IF value # "" THEN value ELSE ""
RECURSIVE MergeLocalFrom(_, _, _)
MergeLocalFrom(i, localSetting, pair) ==
  IF i > Len(SensitiveProperties)
    THEN pair
    ELSE LET property == SensitiveProperties[i]
         IN IF Includes(RootBotManagedProperties, property)
              THEN MergeLocalFrom(i + 1, localSetting, pair)
              ELSE MergeLocalFrom(i + 1, localSetting,
                     SetOnShallowCopy(pair, property,
                       LocalOverride(LocalGet(localSetting, property).value)))
MergeLocalStorage(projectId, object) ==
  LET localSetting == settingStorage[projectId]
  IN IF localSetting.exists
       THEN MergeLocalFrom(1, localSetting, Pair(object, object))
       ELSE Pair(object, object)

\* mergeLuisName
LuisNameAlwaysBotName(luisName, name) == name
LuisName(luisName, name) == IF luisName # "" THEN luisName ELSE name
MergeLuisName(object, name) ==
  ObjectSet(object, << "luis", "name" >>,
            LuisName(ObjectGet(object, << "luis", "name" >>), name))

\* getMergedSettings
GetMergedSettings(projectId, object, name) ==
  LET local == MergeLocalStorage(projectId, object)
      named == MergeLuisName(local.merged, name)
  IN Pair(IF named.skill = "array" THEN [ named EXCEPT !.skill = "dictionary" ] ELSE named,
          local.input)

\* mergePropertiesManagedByRootBot
ManagedValueOfRootOnly(entry, projectId, rootBotProjectId) == entry.root
ManagedValue(entry, projectId, rootBotProjectId) ==
  IF projectId = rootBotProjectId THEN entry.root ELSE SkillEntry(entry, projectId)
RECURSIVE MergeManagedFrom(_, _, _, _, _)
MergeManagedFrom(i, localSetting, projectId, rootBotProjectId, pair) ==
  IF i > Len(RootBotManagedProperties)
    THEN pair
    ELSE LET property == RootBotManagedProperties[i]
         IN MergeManagedFrom(i + 1, localSetting, projectId, rootBotProjectId,
              SetOnCopy(pair, property,
                ManagedValue(LocalGet(localSetting, property), projectId, rootBotProjectId)))
MergePropertiesManagedByRootBot(projectId, rootBotProjectId, object) ==
  LET localSetting == settingStorage[rootBotProjectId]
  IN IF localSetting.exists
       THEN MergeManagedFrom(1, localSetting, projectId, rootBotProjectId, Pair(object, object))
       ELSE Pair(object, object)

StorageProjects == { RootId, ProjectIdOf(1), ProjectIdOf(2) }

MergeIdle ==
  /\ settingStorage = [ p \in StorageProjects |-> NoRecord ]
  /\ remoteSettings = EmptySettings
  /\ settings = EmptySettings
  /\ botName = ""
  /\ mergeProjectId = NoId
  /\ mergedSettings = EmptySettings
  /\ remergedSettings = EmptySettings
  /\ mergePc = "idle"

\* Local-storage records as the merger of one project sees them: strings at
\* the paths it overrides, and one same string at the root-bot-managed paths.
PlainRecords ==
  { [ exists |-> TRUE, MicrosoftAppPassword |-> StorageEntry(a, "", ""),
      luis |-> [ authoringKey |-> StorageEntry(m, "", ""), endpointKey |-> StorageEntry(m, "", "") ],
      qna |-> [ subscriptionKey |-> StorageEntry(m, "", ""), endpointKey |-> StorageEntry(e, "", "") ] ] :
    a \in LocalValues, e \in LocalValues, m \in LocalValues }

InitMerge ==
  /\ TreeIdle /\ LoaderIdle /\ FailureIdle /\ SessionIdle
  /\ remoteSettings \in DialogSettings
  /\ settings = remoteSettings
  /\ botName \in BotNames
  /\ mergeProjectId = RootId
  /\ \E record \in PlainRecords \cup { NoRecord } :
       settingStorage = [ p \in StorageProjects |-> IF p = RootId THEN record ELSE NoRecord ]
  /\ mergedSettings = EmptySettings
  /\ remergedSettings = EmptySettings
  /\ mergePc = "start"

\* getMergedSettings(projectId, settings, botName) on the backend's settings.
CallGetMergedSettings ==
  /\ mergePc = "start"
  /\ LET call == GetMergedSettings(mergeProjectId, settings, botName)
     IN /\ mergedSettings' = call.merged
        /\ settings' = call.input
  /\ mergePc' = "merged"
  /\ UNCHANGED << settingStorage, remoteSettings, botName, mergeProjectId, remergedSettings >>
  /\ UNCHANGED << treeVars, loaderVars, failureVars, sessionVars >>

\* getMergedSettings on its own result, same bot name and local storage.
CallGetMergedSettingsAgain ==
  /\ mergePc = "merged"
  /\ LET call == GetMergedSettings(mergeProjectId, mergedSettings, botName)
     IN /\ remergedSettings' = call.merged
        /\ mergedSettings' = call.input
  /\ mergePc' = "remerged"
  /\ UNCHANGED << settingStorage, remoteSettings, settings, botName, mergeProjectId >>
  /\ UNCHANGED << treeVars, loaderVars, failureVars, sessionVars >>

NextMerge == CallGetMergedSettings \/ CallGetMergedSettingsAgain

SpecMerge == InitMerge /\ [][NextMerge]_vars

\* Local-storage records of the root bot: a map at every root-bot-managed path.
ManagedValues == { "", "rootKey" }
SkillValues == { "", "skillKey" }
ManagedEntries == { StorageEntry("", r, k) : r \in ManagedValues, k \in SkillValues }
ManagedRecords ==
  [ exists : { TRUE }, MicrosoftAppPassword : { NoEntry },
    luis : [ authoringKey : ManagedEntries, endpointKey : ManagedEntries ],
    qna : [ subscriptionKey : ManagedEntries, endpointKey : { NoEntry } ] ]

InitManaged ==
  /\ TreeIdle /\ LoaderIdle /\ FailureIdle /\ SessionIdle
  /\ remoteSettings \in { s \in DialogSettings : s.skill = "none" }
  /\ settings = remoteSettings
  /\ botName = ""
  /\ mergeProjectId \in StorageProjects
  /\ \E record \in ManagedRecords \cup { NoRecord } :
       settingStorage = [ p \in StorageProjects |-> IF p = RootId THEN record ELSE NoRecord ]
  /\ mergedSettings = EmptySettings
  /\ remergedSettings = EmptySettings
  /\ mergePc = "start"

\* mergePropertiesManagedByRootBot(projectId, rootBotProjectId, settings)
CallMergePropertiesManagedByRootBot ==
  /\ mergePc = "start"
  /\ LET call == MergePropertiesManagedByRootBot(mergeProjectId, RootId, settings)
     IN /\ mergedSettings' = call.merged
        /\ settings' = call.input
  /\ mergePc' = "managed"
  /\ UNCHANGED << settingStorage, remoteSettings, botName, mergeProjectId, remergedSettings >>
  /\ UNCHANGED << treeVars, loaderVars, failureVars, sessionVars >>

NextManaged == CallMergePropertiesManagedByRootBot

SpecManaged == InitManaged /\ [][NextManaged]_vars

\* ------------------------------------------------------------- project loader
\* loadProjectData(data): the result as its caller gets it. getMergedSettings
\* runs first, on data.settings.
LoadProjectData(files) ==
  IF files = "ok" THEN LoaderTuple(TRUE, TRUE, NoError) ELSE LoaderRejection(ThrownBy(files))

\* The try/catch of fetchProjectDataByPath and fetchProjectDataById.
Caught(result) ==
  IF result.outcome = "rejected" THEN LoaderTuple(FALSE, FALSE, result.error) ELSE result

RunGetMergedSettings ==
  LET call == GetMergedSettings(mergeProjectId, settings, botName)
  IN /\ mergedSettings' = call.merged
     /\ settings' = call.input

FetchProjectData(entry) ==
  /\ loaderEntry = "start"
  /\ loaderEntry' = entry
  /\ \E request \in { "fails", "ok" }, files \in FileOutcomes :
       IF request = "fails"
         THEN /\ loaderResult' = Caught(LoaderRejection(HttpError))
              /\ UNCHANGED << settings, mergedSettings >>
         ELSE /\ RunGetMergedSettings
              /\ loaderResult' = Caught(LoadProjectData(files))
  /\ UNCHANGED << settingStorage, remoteSettings, botName, mergeProjectId,
                  remergedSettings, mergePc >>
  /\ UNCHANGED << treeVars, failureVars, sessionVars >>

FetchProjectDataByPath == FetchProjectData("fetchProjectDataByPath")

FetchProjectDataById == FetchProjectData("fetchProjectDataById")

\* saveProject after its saveAs request succeeded: it calls loadProjectData
\* itself and reads data.error.
SaveProject ==
  /\ loaderEntry = "start"
  /\ loaderEntry' = "loadProjectData"
  /\ RunGetMergedSettings
  /\ \E files \in FileOutcomes : loaderResult' = LoadProjectData(files)
  /\ UNCHANGED << settingStorage, remoteSettings, botName, mergeProjectId,
                  remergedSettings, mergePc >>
  /\ UNCHANGED << treeVars, failureVars, sessionVars >>

InitLoader ==
  /\ TreeIdle /\ FailureIdle /\ SessionIdle
  /\ remoteSettings \in { s \in DialogSettings : s.skill = "none" }
  /\ settings = remoteSettings
  /\ botName \in BotNames
  /\ mergeProjectId = RootId
  /\ \E record \in PlainRecords \cup { NoRecord } :
       settingStorage = [ p \in StorageProjects |-> IF p = RootId THEN record ELSE NoRecord ]
  /\ mergedSettings = EmptySettings
  /\ remergedSettings = EmptySettings
  /\ mergePc = "idle"
  /\ loaderEntry = "start"
  /\ loaderResult = NoLoaderResult

NextLoader == FetchProjectDataByPath \/ FetchProjectDataById \/ SaveProject

SpecLoader == InitLoader /\ [][NextLoader]_vars

\* ------------------------------------------------------------- project failure
\* error.response?.data?.message ?? error.message ?? ''
MessageOfErrorFirst(error) ==
  IF error.message # "absent" THEN error.message
  ELSE IF error.responseMessage # "absent" THEN error.responseMessage ELSE ""
MessageOf(error) ==
  IF error.responseMessage # "absent" THEN error.responseMessage
  ELSE IF error.message # "absent" THEN error.message ELSE ""

CheckIfDotnetVersionMissing(message) == message \in { "dotnet", "both" }
CheckIfFunctionsMissing(message) == message \in { "functions", "both" }

HandleProjectFailure(error) ==
  LET isDotnetError == CheckIfDotnetVersionMissing(MessageOf(error))
      isFunctionsError == CheckIfFunctionsMissing(MessageOf(error))
  IN /\ handledError' = error
     /\ IF isDotnetError
          THEN /\ warnAboutDotNetState' = TRUE
               /\ handledWrites' = { "warnAboutDotNetState" }
               /\ UNCHANGED << warnAboutFunctionsState, applicationErrorState >>
          ELSE IF isFunctionsError
            THEN /\ warnAboutFunctionsState' = TRUE
                 /\ handledWrites' = { "warnAboutFunctionsState" }
                 /\ UNCHANGED << warnAboutDotNetState, applicationErrorState >>
            ELSE /\ warnAboutDotNetState' = FALSE
                 /\ warnAboutFunctionsState' = FALSE
                 /\ applicationErrorState' = error
                 /\ handledWrites' = { "warnAboutDotNetState", "warnAboutFunctionsState",
                                       "applicationErrorState" }
     /\ UNCHANGED << treeVars, mergeVars, loaderVars, sessionVars >>

ProjectFails == \E error \in ProjectErrors : HandleProjectFailure(error)

InitFailure == TreeIdle /\ MergeIdle /\ LoaderIdle /\ FailureIdle /\ SessionIdle

NextFailure == ProjectFails

SpecFailure == InitFailure /\ [][NextFailure]_vars

\* ------------------------------------------------------------- skill-tree actions
\* openRootBotAndSkills: initBotState of the root, then the synchronous part
\* up to the return (or the throw when there is no bot project file). The
\* project data opened here has empty settings, for which refreshLocalStorage
\* writes nothing to local storage.
OpenRootBotAndSkills ==
  /\ pc = "start"
  /\ botDisplayNameState' = Put(botDisplayNameState, RootId, << "botName", 0 >>)
  /\ botNameIdentifierState' = Put(botNameIdentifierState, RootId, << "camelCase", 0 >>)
  /\ botProjectIdsState' = << RootId >>
  /\ IF hasBotProjectFile
       THEN /\ IF TotalProjectsCount > 1
                 THEN /\ skillPromise' =
                           [ k \in DOMAIN skills |->
                               IF skills[k] = "none" THEN "absent" ELSE "pending" ]
                      /\ UNCHANGED << botProjectSpaceLoadedState, loadedWrites >>
                 ELSE /\ botProjectSpaceLoadedState' = TRUE
                      /\ loadedWrites' = loadedWrites + 1
                      /\ UNCHANGED skillPromise
            /\ currentProjectIdState' = RootId
            /\ pc' = "returned"
       ELSE /\ pc' = "rejected"
            /\ UNCHANGED << skillPromise, botProjectSpaceLoadedState, loadedWrites,
                            currentProjectIdState >>
  /\ UNCHANGED << hasBotProjectFile, skills, skillError, placeholderOf,
                  projectMetaDataState, botErrorState, uuidCount >>
  /\ UNCHANGED << mergeVars, loaderVars, failureVars, sessionVars >>

\* The skill's load fulfils and the .then handler runs: the id is added, then
\* endpoint matching and the publish-status dispatch run, which may throw.
SkillLoaded(k) ==
  /\ k \in DOMAIN skillPromise
  /\ skillPromise[k] = "pending"
  /\ projectMetaDataState' =
       Put(projectMetaDataState, ProjectIdOf(k),
           [ isRootBot |-> FALSE, isRemote |-> skills[k] = "remote" ])
  /\ botNameIdentifierState' = Put(botNameIdentifierState, ProjectIdOf(k), << "key", k >>)
  /\ botDisplayNameState' = Put(botDisplayNameState, ProjectIdOf(k), << "botName", k >>)
  /\ AddProjectToBotProjectSpace(ProjectIdOf(k), TotalProjectsCount)
  /\ \E handlerThrows \in BOOLEAN :
       skillPromise' = [ skillPromise EXCEPT ![k] =
                           IF handlerThrows THEN "thenThrew" ELSE "settled" ]
  /\ UNCHANGED << hasBotProjectFile, skills, pc, skillError, placeholderOf,
                  currentProjectIdState, botErrorState, uuidCount >>
  /\ UNCHANGED << mergeVars, loaderVars, failureVars, sessionVars >>

\* The skill's load rejects with ex and the .catch handler runs.
SkillFailed(k) ==
  /\ k \in DOMAIN skillPromise
  /\ skillPromise[k] = "pending"
  /\ \E ex \in LoadErrors :
       /\ skillError' = [ skillError EXCEPT ![k] = ex ]
       /\ HandleSkillLoadingFailure(k, ex)
  /\ skillPromise' = [ skillPromise EXCEPT ![k] = "settled" ]
  /\ UNCHANGED << hasBotProjectFile, skills, pc, currentProjectIdState >>
  /\ UNCHANGED << mergeVars, loaderVars, failureVars, sessionVars >>

\* The .then handler threw: the .catch chained after it runs with that error.
HandlerErrorCaught(k) ==
  /\ k \in DOMAIN skillPromise
  /\ skillPromise[k] = "thenThrew"
  /\ HandleSkillLoadingFailure(k, HandlerError)
  /\ skillPromise' = [ skillPromise EXCEPT ![k] = "settled" ]
  /\ UNCHANGED << hasBotProjectFile, skills, pc, skillError, currentProjectIdState >>
  /\ UNCHANGED << mergeVars, loaderVars, failureVars, sessionVars >>

InitTree ==
  /\ MergeIdle /\ LoaderIdle /\ FailureIdle /\ SessionIdle
  /\ hasBotProjectFile \in BOOLEAN
  /\ \E n \in 0..MaxSkills : skills \in [ 1..n -> SkillKinds ]
  /\ pc = "start"
  /\ skillPromise = EmptyMap
  /\ skillError = [ k \in DOMAIN skills |-> NoError ]
  /\ placeholderOf = [ k \in DOMAIN skills |-> NoId ]
  /\ botProjectIdsState = << >>
  /\ botProjectSpaceLoadedState = FALSE
  /\ currentProjectIdState = NoId
  /\ projectMetaDataState = EmptyMap
  /\ botDisplayNameState = EmptyMap
  /\ botNameIdentifierState = EmptyMap
  /\ botErrorState = EmptyMap
  /\ uuidCount = 0
  /\ loadedWrites = 0

NextTree ==
  \/ OpenRootBotAndSkills
  \/ \E k \in SkillKeys : SkillLoaded(k)
  \/ \E k \in SkillKeys : SkillFailed(k)
  \/ \E k \in SkillKeys : HandlerErrorCaught(k)

SpecTree == InitTree /\ [][NextTree]_vars

\* ------------------------------------------------------------- flushExistingTasks
Drop(f, id) == [ x \in DOMAIN f \ { id } |-> f[x] ]
IdsIn(ids) == { ids[i] : i \in 1..Len(ids) }

\* flushExistingTasks is called: projectIds comes from the caller's snapshot.
FlushExistingTasks ==
  /\ pc # "start"
  /\ flushPc = "idle"
  /\ flushProjectIds' = botProjectIdsState
  /\ flushPc' = "snapshot"
  /\ UNCHANGED << stopBotPromise, workersFlushed, stoppedBots, resetProjects >>
  /\ UNCHANGED << treeVars, mergeVars, loaderVars, failureVars, parseVars, storageAtOpen >>

\* After the two awaited reads: the two resets, and stopBot and worker.flush
\* are started.
FlushReset ==
  /\ flushPc = "snapshot"
  /\ botProjectSpaceLoadedState' = FALSE
  /\ botProjectIdsState' = << >>
  /\ stopBotPromise' = [ p \in IdsIn(flushProjectIds) |-> "pending" ]
  /\ flushPc' = "stopping"
  /\ UNCHANGED << flushProjectIds, workersFlushed, stoppedBots, resetProjects >>
  /\ UNCHANGED << hasBotProjectFile, skills, pc, skillPromise, skillError, placeholderOf,
                  currentProjectIdState, projectMetaDataState, botDisplayNameState,
                  botNameIdentifierState, botErrorState, uuidCount, loadedWrites >>
  /\ UNCHANGED << mergeVars, loaderVars, failureVars, parseVars, storageAtOpen >>

\* stopBot(projectId) resolves and resetBotStates(projectId) runs.
StopBotResolved(p) ==
  /\ p \in DOMAIN stopBotPromise
  /\ stopBotPromise[p] = "pending"
  /\ stopBotPromise' = [ stopBotPromise EXCEPT ![p] = "resolved" ]
  /\ stoppedBots' = stoppedBots \cup { p }
  /\ resetProjects' = resetProjects \cup { p }
  /\ projectMetaDataState' = Drop(projectMetaDataState, p)
  /\ botDisplayNameState' = Drop(botDisplayNameState, p)
  /\ botNameIdentifierState' = Drop(botNameIdentifierState, p)
  /\ botErrorState' = Drop(botErrorState, p)
  /\ UNCHANGED << flushPc, flushProjectIds, workersFlushed >>
  /\ UNCHANGED << hasBotProjectFile, skills, pc, skillPromise, skillError, placeholderOf,
                  botProjectIdsState, botProjectSpaceLoadedState, currentProjectIdState,
                  uuidCount, loadedWrites >>
  /\ UNCHANGED << mergeVars, loaderVars, failureVars, parseVars, storageAtOpen >>

\* stopBot(projectId) rejects: resetBotStates(projectId) does not run.
StopBotRejected(p) ==
  /\ p \in DOMAIN stopBotPromise
  /\ stopBotPromise[p] = "pending"
  /\ stopBotPromise' = [ stopBotPromise EXCEPT ![p] = "rejected" ]
  /\ UNCHANGED << flushPc, flushProjectIds, workersFlushed, stoppedBots, resetProjects >>
  /\ UNCHANGED << treeVars, mergeVars, loaderVars, failureVars, parseVars, storageAtOpen >>

\* The three worker.flush() calls resolve.
WorkersFlushed ==
  /\ flushPc = "stopping"
  /\ ~workersFlushed
  /\ workersFlushed' = TRUE
  /\ UNCHANGED << flushPc, flushProjectIds, stopBotPromise, stoppedBots, resetProjects >>
  /\ UNCHANGED << treeVars, mergeVars, loaderVars, failureVars, parseVars, storageAtOpen >>

\* await Promise.all([...result, ...workers]) settles.
FlushSettles ==
  /\ flushPc = "stopping"
  /\ \/ /\ \E p \in DOMAIN stopBotPromise : stopBotPromise[p] = "rejected"
        /\ flushPc' = "rejected"
     \/ /\ \A p \in DOMAIN stopBotPromise : stopBotPromise[p] = "resolved"
        /\ workersFlushed
        /\ flushPc' = "done"
  /\ UNCHANGED << flushProjectIds, stopBotPromise, workersFlushed, stoppedBots, resetProjects >>
  /\ UNCHANGED << treeVars, mergeVars, loaderVars, failureVars, parseVars, storageAtOpen >>

NextFlush ==
  \/ OpenRootBotAndSkills
  \/ \E k \in SkillKeys : SkillLoaded(k)
  \/ \E k \in SkillKeys : SkillFailed(k)
  \/ \E k \in SkillKeys : HandlerErrorCaught(k)
  \/ FlushExistingTasks
  \/ FlushReset
  \/ \E p \in DOMAIN stopBotPromise : StopBotResolved(p)
  \/ \E p \in DOMAIN stopBotPromise : StopBotRejected(p)
  \/ WorkersFlushed
  \/ FlushSettles

SpecFlush == InitTree /\ [][NextFlush]_vars

\* ------------------------------------------------------------- parseAllAssets
FileIds == { "main", "extra" }
MigratedIds == { "main-manual.source" }

\* emptyLgFile, emptyLuFile, emptyQnaFile: isContentUnparsed is true.
EmptyFile == "unparsed"
\* A record a worker's parseAll returned.
ParsedFile == "parsed"
\* A record some other writer stored: isContentUnparsed is not true.
WrittenFile == "written"

IsContentUnparsed(record) == record = EmptyFile

\* oldFiles.map(item => file && item.isContentUnparsed ? file : item)
ReplaceUnparsed(oldFiles, parsedIds) ==
  [ id \in DOMAIN oldFiles |->
      IF id \in parsedIds /\ IsContentUnparsed(oldFiles[id]) THEN ParsedFile ELSE oldFiles[id] ]

\* migratedQnAFiles.map(newFile => oldFile && !oldFile.isContentUnparsed ? oldFile : newFile)
KeepParsedOfMigrated(oldFiles, migratedIds) ==
  [ id \in migratedIds |->
      IF id \in DOMAIN oldFiles /\ ~IsContentUnparsed(oldFiles[id]) THEN oldFiles[id]
      ELSE ParsedFile ]

\* migrateQnAFiles: the parsed files, and the files the migration adds.
MigrateQnAFiles(parsedIds, added) == parsedIds \cup added

\* settingStorage.setField(projectId, property, value)
LocalSet(localSetting, property, entry) ==
  IF Len(property) = 1
    THEN [ localSetting EXCEPT ![property[1]] = entry, !["exists"] = TRUE ]
    ELSE [ localSetting EXCEPT ![property[1]][property[2]] = entry, !["exists"] = TRUE ]
SetField(storage, projectId, property, value) ==
  [ storage EXCEPT ![projectId] = LocalSet(@, property, StorageEntry(value, "", "")) ]

\* refreshLocalStorage
RECURSIVE RefreshFrom(_, _, _, _)
RefreshFrom(i, storage, projectId, object) ==
  IF i > Len(SensitiveProperties)
    THEN storage
    ELSE LET property == SensitiveProperties[i]
             value == ObjectGet(object, property)
         IN RefreshFrom(i + 1,
                        IF value # "" THEN SetField(storage, projectId, property, value)
                        ELSE storage,
                        projectId, object)
RefreshLocalStorage(storage, projectId, object) == RefreshFrom(1, storage, projectId, object)

\* initBotState(callbackHelpers, projectData, botFiles) after a load that
\* returned no error: it stores the placeholders loadProjectData built,
\* refreshes local storage from projectData.settings, sets
\* projectIndexingState and starts parseAllAssets without awaiting it.
InitBotState(botFiles) ==
  /\ loaderResult.outcome = "returned" /\ loaderResult.error = NoError
  /\ parsePc = "idle"
  /\ workerFiles' = botFiles
  /\ storeFiles' = [ kind \in FileKinds |-> [ id \in botFiles[kind] |-> EmptyFile ] ]
  /\ storageAtOpen' = settingStorage
  /\ settingStorage' = RefreshLocalStorage(settingStorage, mergeProjectId, settings)
  /\ projectIndexingState' = TRUE
  /\ parsePc' = "parsing"
  /\ UNCHANGED storeAtCompletion
  /\ UNCHANGED << remoteSettings, settings, botName, mergeProjectId, mergedSettings,
                  remergedSettings, mergePc >>
  /\ UNCHANGED << treeVars, loaderVars, failureVars, flushVars >>

\* While the workers run, another writer updates or creates a record.
WriteFile(kind, id) ==
  /\ parsePc = "parsing"
  /\ storeFiles' = [ storeFiles EXCEPT ![kind] = Put(storeFiles[kind], id, WrittenFile) ]
  /\ UNCHANGED << parsePc, workerFiles, storeAtCompletion, projectIndexingState >>
  /\ UNCHANGED << treeVars, mergeVars, loaderVars, failureVars, flushVars, storageAtOpen >>

\* While the workers run, another writer removes a record.
RemoveFile(kind, id) ==
  /\ parsePc = "parsing"
  /\ id \in DOMAIN storeFiles[kind]
  /\ storeFiles' = [ storeFiles EXCEPT ![kind] = Drop(storeFiles[kind], id) ]
  /\ UNCHANGED << parsePc, workerFiles, storeAtCompletion, projectIndexingState >>
  /\ UNCHANGED << treeVars, mergeVars, loaderVars, failureVars, flushVars, storageAtOpen >>

\* Promise.all of the three parseAll calls resolves: the three updaters run
\* and projectIndexingState is set to false.
ParseAllAssetsResolved(added) ==
  /\ parsePc = "parsing"
  /\ storeAtCompletion' = storeFiles
  /\ storeFiles' =
       [ kind \in FileKinds |->
           IF kind = "qna"
           THEN KeepParsedOfMigrated(storeFiles[kind],
                                     MigrateQnAFiles(workerFiles[kind], added))
           ELSE ReplaceUnparsed(storeFiles[kind], workerFiles[kind]) ]
  /\ projectIndexingState' = FALSE
  /\ parsePc' = "done"
  /\ UNCHANGED workerFiles
  /\ UNCHANGED << treeVars, mergeVars, loaderVars, failureVars, flushVars, storageAtOpen >>

\* One of the parseAll calls rejects: Promise.all rejects, parseAllAssets
\* rejects at its await, and nobody handles the rejection.
ParseAllAssetsRejected ==
  /\ parsePc = "parsing"
  /\ parsePc' = "failed"
  /\ UNCHANGED << workerFiles, storeFiles, storeAtCompletion, projectIndexingState >>
  /\ UNCHANGED << treeVars, mergeVars, loaderVars, failureVars, flushVars, storageAtOpen >>

\* A project with empty settings and no local-storage record was loaded.
InitParse ==
  /\ TreeIdle /\ FailureIdle /\ SessionIdle
  /\ settingStorage = [ p \in StorageProjects |-> NoRecord ]
  /\ remoteSettings = EmptySettings
  /\ settings = EmptySettings
  /\ botName = ""
  /\ mergeProjectId = RootId
  /\ mergedSettings = EmptySettings
  /\ remergedSettings = EmptySettings
  /\ mergePc = "idle"
  /\ loaderEntry = "fetchProjectDataByPath"
  /\ loaderResult = LoaderTuple(TRUE, TRUE, NoError)

NextParse ==
  \/ \E botFiles \in [ FileKinds -> SUBSET FileIds ] : InitBotState(botFiles)
  \/ \E kind \in FileKinds, id \in FileIds : WriteFile(kind, id)
  \/ \E kind \in FileKinds, id \in FileIds : RemoveFile(kind, id)
  \/ \E added \in SUBSET MigratedIds : ParseAllAssetsResolved(added)
  \/ ParseAllAssetsRejected

SpecParse == InitParse /\ [][NextParse]_vars

\* Opening a project without lg, lu and qna files: the load, then initBotState.
NextOpen ==
  \/ FetchProjectDataByPath
  \/ FetchProjectDataById
  \/ InitBotState(NoWorkerFiles)
  \/ \E added \in SUBSET MigratedIds : ParseAllAssetsResolved(added)
  \/ ParseAllAssetsRejected

SpecOpen == InitLoader /\ [][NextOpen]_vars

\* ------------------------------------------------- skill-tree properties
Started(k) == k \in DOMAIN skillPromise /\ skillPromise[k] # "absent"
Settled(k) == k \in DOMAIN skillPromise /\ skillPromise[k] = "settled"
InFlight(k) == k \in DOMAIN skillPromise /\ skillPromise[k] \in { "pending", "thenThrew" }
\* openRootBotAndSkills has returned and no promise handler is left to run.
Quiescent == pc = "returned" /\ \A k \in DOMAIN skills : ~InFlight(k)
IdsOf(k) ==
  { i \in 1..Len(botProjectIdsState) :
      \/ botProjectIdsState[i] = ProjectIdOf(k)
      \/ placeholderOf[k] # NoId /\ botProjectIdsState[i] = placeholderOf[k] }

\* C1 (as claimed): once openRootBotAndSkills has returned and every promise
\* handler has run, the loaded flag is true and botProjectIdsState holds exactly
\* N + 1 ids, N the number of entries of the skill mapping.
C1_LoadedWithAllIds ==
  Quiescent =>
    /\ botProjectSpaceLoadedState = TRUE
    /\ Len(botProjectIdsState) = Cardinality(DOMAIN skills) + 1

\* C2 (as claimed): every skill entry contributes at most one id, and whenever
\* the loaded flag is true every entry has settled and contributed exactly one.
C2_OneIdPerSkill ==
  /\ \A k \in DOMAIN skills : Cardinality(IdsOf(k)) <= 1
  /\ botProjectSpaceLoadedState = TRUE =>
       \A k \in DOMAIN skills : Settled(k) /\ Cardinality(IdsOf(k)) = 1

\* C3 (as claimed): for one open the write of true to
\* botProjectSpaceLoadedState happens exactly once: never twice, and once by
\* the time every promise handler has run.
C3_LoadedWrittenExactlyOnce ==
  /\ loadedWrites <= 1
  /\ Quiescent => loadedWrites = 1

\* The parts of C4 that do not depend on what botErrorState holds: the open
\* has returned, every sibling that has a workspace or a manifest was opened
\* and, once settled, is counted, and the failed skill k has a placeholder with a fresh id, the
\* metadata of its kind and the skill's key as both names.
FailedLoad(k) == k \in DOMAIN skills /\ skillError[k] # NoError
PlaceholderShape(k) ==
  LET id == placeholderOf[k]
  IN /\ pc = "returned"
     /\ id # NoId /\ id # RootId
     /\ \A j \in DOMAIN skills : id # ProjectIdOf(j) /\ (j # k => id # placeholderOf[j])
     /\ Cardinality({ i \in 1..Len(botProjectIdsState) : botProjectIdsState[i] = id }) = 1
     /\ id \in DOMAIN projectMetaDataState
     /\ projectMetaDataState[id] = [ isRootBot |-> FALSE, isRemote |-> skills[k] = "remote" ]
     /\ botDisplayNameState[id] = << "key", k >>
     /\ botNameIdentifierState[id] = << "key", k >>
     /\ \A j \in DOMAIN skills \ { k } :
          /\ skills[j] # "none" => Started(j)
          /\ Settled(j) => IdsOf(j) # {}

Merged == mergePc \in { "merged", "remerged" }
LocalRecord == settingStorage[mergeProjectId]

\* C6: after getMergedSettings, at every sensitive path that is not
\* root-bot-managed a non-empty local value is the merged value; at every
\* root-bot-managed sensitive path the merged value is the remote one; and
\* with no local record every sensitive path has the remote value.
C6_MergePrecedence ==
  Merged =>
    \A i \in 1..Len(SensitiveProperties) :
      LET property == SensitiveProperties[i]
          managed == Includes(RootBotManagedProperties, property)
          local == LocalGet(LocalRecord, property).value
      IN /\ (~managed /\ LocalRecord.exists /\ local # "") =>
              ObjectGet(mergedSettings, property) = local
         /\ managed =>
              ObjectGet(mergedSettings, property) = ObjectGet(remoteSettings, property)
         /\ ~LocalRecord.exists =>
              ObjectGet(mergedSettings, property) = ObjectGet(remoteSettings, property)

\* A local value won over a different remote one at qna.endpointKey while the
\* local value at the root-bot-managed luis.authoringKey was ignored.
C6_Witness ==
  /\ mergePc = "merged"
  /\ LocalRecord.exists
  /\ LocalRecord.qna.endpointKey.value = "local"
  /\ remoteSettings.qna.defined /\ remoteSettings.qna.endpointKey = "remote"
  /\ mergedSettings.qna.endpointKey = "local"
  /\ LocalRecord.luis.authoringKey.value = "local"
  /\ remoteSettings.luis.defined /\ remoteSettings.luis.authoringKey = "remote"

\* C7 (as claimed): getMergedSettings leaves the settings object it was passed
\* as the backend returned it, at every nesting depth.
C7_InputUnchanged == Merged => settings = remoteSettings

\* C8: with a local-storage record of the root bot, every root-bot-managed
\* path of the merged settings holds the record's 'root' entry for the root
\* project and the entry keyed by its own id for a skill ("" when absent);
\* with no record the content is equal; the input object is never modified.
C8_RootBotManaged ==
  mergePc = "managed" =>
    /\ settings = remoteSettings
    /\ ~settingStorage[RootId].exists => mergedSettings = remoteSettings
    /\ settingStorage[RootId].exists =>
         \A i \in 1..Len(RootBotManagedProperties) :
           LET property == RootBotManagedProperties[i]
               entry == LocalGet(settingStorage[RootId], property)
           IN ObjectGet(mergedSettings, property) =
                IF mergeProjectId = RootId THEN entry.root
                ELSE IF mergeProjectId = ProjectIdOf(1) THEN entry.skill ELSE ""

\* A skill received its own entry where the remote value and the root's differ.
C8_Witness ==
  /\ mergePc = "managed"
  /\ mergeProjectId = ProjectIdOf(1)
  /\ settingStorage[RootId].exists
  /\ settingStorage[RootId].luis.authoringKey = StorageEntry("", "rootKey", "skillKey")
  /\ remoteSettings.luis.defined /\ remoteSettings.luis.authoringKey = "remote"
  /\ mergedSettings.luis.authoringKey = "skillKey"

\* C9: the merged luis.name is the remote luis.name when that is non-empty and
\* the bot name otherwise, and merging the result again with the same bot name
\* and local storage gives the same luis.name.
C9_LuisName ==
  /\ Merged =>
       ObjectGet(mergedSettings, << "luis", "name" >>) =
         IF ObjectGet(remoteSettings, << "luis", "name" >>) # ""
           THEN ObjectGet(remoteSettings, << "luis", "name" >>)
           ELSE botName
  /\ mergePc = "remerged" =>
       ObjectGet(remergedSettings, << "luis", "name" >>) =
         ObjectGet(mergedSettings, << "luis", "name" >>)

\* The bot name was the default the first time and kept the second time.
C9_Witness ==
  /\ mergePc = "remerged"
  /\ ~remoteSettings.luis.defined
  /\ botName = "bot"
  /\ mergedSettings.luis.name = "bot"
  /\ remergedSettings.luis.name = "bot"

\* ------------------------------------------------- loader properties
\* C5 (as claimed): no call of the project loader rejects, and the tuple it
\* returns has either error undefined and botFiles and projectData defined, or
\* error defined and botFiles and projectData undefined.
C5_LoaderNeverThrows ==
  /\ loaderResult.outcome # "rejected"
  /\ loaderResult.outcome = "returned" =>
       \/ loaderResult.error = NoError /\ loaderResult.botFiles /\ loaderResult.projectData
       \/ loaderResult.error # NoError /\ ~loaderResult.botFiles /\ ~loaderResult.projectData

\* ------------------------------------------------- failure properties
Handled == handledError # NoFailure
\* The message the failure is told by: the response's when it has one.
HandledMessage ==
  IF handledError.responseMessage # "absent" THEN handledError.responseMessage
  ELSE IF handledError.message # "absent" THEN handledError.message ELSE ""

\* C10: every handled failure has exactly one of three outcomes. A message
\* that matches the missing-.NET pattern sets warnAboutDotNetState to true and
\* writes nothing else; one that matches the missing-Functions pattern (and not
\* the .NET one, which is tested first) sets warnAboutFunctionsState to true and
\* writes nothing else; any other error sets both flags to false and is
\* recorded as the application error. The application error is not written
\* for the two known problems.
C10_FailureClassified ==
  Handled =>
    LET dotnet == HandledMessage \in { "dotnet", "both" }
        functions == HandledMessage = "functions"
    IN /\ dotnet =>
            warnAboutDotNetState = TRUE /\ handledWrites = { "warnAboutDotNetState" }
       /\ functions =>
            warnAboutFunctionsState = TRUE /\ handledWrites = { "warnAboutFunctionsState" }
       /\ (~dotnet /\ ~functions) =>
            /\ warnAboutDotNetState = FALSE /\ warnAboutFunctionsState = FALSE
            /\ applicationErrorState = handledError
            /\ handledWrites = { "warnAboutDotNetState", "warnAboutFunctionsState",
                                 "applicationErrorState" }
       /\ (dotnet \/ functions) => "applicationErrorState" \notin handledWrites

\* A missing-Functions failure, told by its response message, was handled
\* after a generic one: the recorded error is still the earlier one.
C10_Witness ==
  /\ handledError = [ responseMessage |-> "functions", message |-> "other" ]
  /\ warnAboutFunctionsState = TRUE
  /\ applicationErrorState = [ responseMessage |-> "absent", message |-> "other" ]

\* ------------------------------------------------- further properties
\* C14: without a bot project file openRootBotAndSkills throws (its only
\* throw, 'Bot project file does not exist.') and then has not set the loaded
\* flag, has not changed currentProjectIdState and has opened no skill; it
\* throws in no other case; with a bot project file that lists no skill it
\* returns with the loaded flag true, botProjectIdsState = [root id] and
\* currentProjectIdState = root id.
C14_MissingFileAndNoSkills ==
  /\ pc = "rejected" =>
       /\ ~hasBotProjectFile
       /\ botProjectSpaceLoadedState = FALSE /\ loadedWrites = 0
       /\ currentProjectIdState = NoId
       /\ \A k \in DOMAIN skills : k \notin DOMAIN skillPromise
  /\ pc = "returned" => hasBotProjectFile
  /\ (pc = "returned" /\ DOMAIN skills = {}) =>
       /\ botProjectSpaceLoadedState = TRUE
       /\ botProjectIdsState = << RootId >>
       /\ currentProjectIdState = RootId

\* The open failed for a project whose skill mapping has entries.
C14_WitnessMissingFile ==
  /\ pc = "rejected"
  /\ DOMAIN skills # {}
  /\ botProjectIdsState = << RootId >>
  /\ botProjectSpaceLoadedState = FALSE

\* C17 (as claimed): the two warning flags are never both true.
C17_NeverBothWarnings == ~(warnAboutDotNetState = TRUE /\ warnAboutFunctionsState = TRUE)

\* C12 (as claimed): when flushExistingTasks completes, botProjectIdsState and
\* botProjectSpaceLoadedState are at their defaults and every per-project state
\* of every project that was open is at its default; and no project's states
\* are reset before its bot was stopped.
C12_FlushedToDefaults ==
  /\ resetProjects \subseteq stoppedBots
  /\ flushPc = "done" =>
       /\ botProjectIdsState = << >>
       /\ botProjectSpaceLoadedState = FALSE
       /\ \A p \in IdsIn(flushProjectIds) :
            /\ p \in resetProjects
            /\ p \notin DOMAIN projectMetaDataState
            /\ p \notin DOMAIN botDisplayNameState
            /\ p \notin DOMAIN botNameIdentifierState
            /\ p \notin DOMAIN botErrorState

\* C15 (as claimed): once flushExistingTasks has reset the project space (and
\* no other root bot was opened), no late skill load adds an id to
\* botProjectIdsState or sets botProjectSpaceLoadedState to true.
C15_NoLateLoadLeaks ==
  flushPc \in { "stopping", "done", "rejected" } =>
    /\ botProjectIdsState = << >>
    /\ botProjectSpaceLoadedState = FALSE

\* C11 (as claimed, in its finite form): projectIndexingState is true while
\* parseAllAssets runs, and once parseAllAssets can take no further step,
\* whether its workers resolved or one of them failed, projectIndexingState
\* is false.
C11_IndexingEnds ==
  /\ parsePc = "parsing" => projectIndexingState = TRUE
  /\ parsePc \in { "done", "failed" } => projectIndexingState = FALSE

\* C16 (as claimed): when parseAllAssets completes, a record that is not a
\* placeholder keeps its stored record, only placeholders are replaced, and
\* the ids of the lg and lu files in the store are unchanged.
C16_NewerStateKept ==
  parsePc = "done" =>
    /\ \A kind \in FileKinds : \A id \in DOMAIN storeAtCompletion[kind] :
         storeAtCompletion[kind][id] # "unparsed" =>
           /\ id \in DOMAIN storeFiles[kind]
           /\ storeFiles[kind][id] = storeAtCompletion[kind][id]
    /\ \A kind \in { "lg", "lu" } :
         DOMAIN storeFiles[kind] = DOMAIN storeAtCompletion[kind]

\* C13 (as claimed): once the project is opened, local storage holds a
\* non-empty value at every sensitive property the backend's settings carried
\* a non-empty value for; and refreshLocalStorage leaves the stored entry of
\* every property alone whose value in the settings it was passed is empty.
C13_BackendValueReachesStorage ==
  parsePc # "idle" =>
    \A i \in 1..Len(SensitiveProperties) :
      LET property == SensitiveProperties[i]
      IN /\ ObjectGet(remoteSettings, property) # "" =>
              LocalGet(settingStorage[mergeProjectId], property).value # ""
         /\ ObjectGet(settings, property) = "" =>
              LocalGet(settingStorage[mergeProjectId], property) =
                LocalGet(storageAtOpen[mergeProjectId], property)

====
